---- MODULE Spec2Model ----
(***************************************************************************)
(* A model of the simulation core of web-h3-life (core/src/lib.rs): the    *)
(* sparse cell map of a Universe, its tick and render operations, the      *)
(* neighbor count, and the polygon construction of one cell.               *)
(*                                                                         *)
(* The H3 grid (h3o) is an external library.  It is modelled by a small    *)
(* closed grid on a sphere: a hexagonal cell at each pole and two rings of *)
(* six pentagonal cells between them, 14 cells in all.  Every cell has 5   *)
(* or 6 neighbors, as in H3, and adjacency is symmetric.                   *)
(***************************************************************************)
EXTENDS Integers, Sequences, FiniteSets, TLC

VARIABLES
    cells,      \* Universe.cells: a map CellIndex -> CellState
    op,         \* the call that produced this state: "new", "tick", "render"
    prev,       \* history: Universe.cells as it was when that call began
    geojson,    \* the value returned by that call (None for new and tick)
    calls,      \* the number of tick and render calls made so far
    input,      \* the arguments and random draws of Universe::new, or the
                \* boundary handed to the Boundary Projector
    output      \* how Universe::new ended, or the ring the projector built

vars == <<cells, op, prev, geojson, calls, input, output>>

\* ------------------------------------------------------------------ bounds

\* Universe::new(num_init, _) is explored for num_init in 0..MaxPopulation.
MaxPopulation == 2

\* At most MaxCalls calls of tick and render are made on one Universe.
MaxCalls == 3

\* A map is iterated in ascending or in descending order of its keys, begun
\* at any of its first MaxRotate keys and wrapping around; these are all the
\* orders of a map of at most three entries.
MaxRotate == 3

\* The Boundary Projector is explored on boundaries of 1..MaxVertices
\* vertices.
MaxVertices == 3

\* ------------------------------------------------------------ the H3 grid

\* A hexagon has six neighbors; the same number of cells forms each ring.
HexDegree == 6

NorthPole == 0
SouthPole == 2 * HexDegree + 1

\* CellIndex: the cells of the grid at the Universe's resolution.
CellIndex == NorthPole .. SouthPole

Upper(i) == 1 + (i % HexDegree)
Lower(i) == 1 + HexDegree + (i % HexDegree)

UpperRing == {Upper(i) : i \in 0 .. HexDegree - 1}

\* The neighbors of a cell, in the order grid_disk lists them.
GridRing(c) ==
    IF c = NorthPole THEN [i \in 1 .. HexDegree |-> Upper(i - 1)]
    ELSE IF c = SouthPole THEN [i \in 1 .. HexDegree |-> Lower(i - 1)]
    ELSE IF c \in UpperRing
        THEN LET i == c - 1
             IN  << NorthPole, Upper(i + 1), Lower(i),
                    Lower(i + HexDegree - 1), Upper(i + HexDegree - 1) >>
        ELSE LET i == c - 1 - HexDegree
             IN  << SouthPole, Lower(i + 1), Upper(i + 1),
                    Upper(i), Lower(i + HexDegree - 1) >>

\* CellIndex::grid_disk(1): the cell itself, then its neighbors.
GridDisk(c) == <<c>> \o GridRing(c)

\* ------------------------------------------------------------- CellState

Alive == "Alive"
Dead == "Dead"
CellState == {Alive, Dead}

None == "None"

\* ------------------------------------------------------ HashMap operations

EmptyMap == << >>

ContainsKey(m, k) == k \in DOMAIN m

\* HashMap::insert: the entry of k is added or replaced.
Insert(m, k, v) == (k :> v) @@ m

\* HashMap::remove
Remove(m, k) == [x \in (DOMAIN m) \ {k} |-> m[x]] @@ EmptyMap

\* The cells of a map that are Alive.
AliveSet(m) == {c \in DOMAIN m : m[c] = Alive}
DeadSet(m) == {c \in DOMAIN m : m[c] = Dead}

Range(s) == {s[i] : i \in DOMAIN s}

Max2(a, b) == IF a >= b THEN a ELSE b
Min2(a, b) == IF a <= b THEN a ELSE b

Min(S) == CHOOSE x \in S : \A y \in S : x <= y

RECURSIVE Ascending(_)
Ascending(S) ==
    IF S = {} THEN << >> ELSE <<Min(S)>> \o Ascending(S \ {Min(S)})

Reverse(s) == [i \in 1 .. Len(s) |-> s[Len(s) + 1 - i]]

Rotate(s, k) == [i \in 1 .. Len(s) |-> s[((i - 1 + k) % Len(s)) + 1]]

\* HashMap::iter visits every key once, in an order the program does not
\* control.
IterOrders(S) ==
    LET starts == 0 .. Max2(0, Min2(MaxRotate, Cardinality(S)) - 1)
    IN  {Rotate(Ascending(S), k) : k \in starts}
        \cup {Rotate(Reverse(Ascending(S)), k) : k \in starts}

\* ---------------------------------------------------- Boundary Projector

MAX_LNG == 180

\* The longitudes one ring cell spans.
CellWidth == (2 * MAX_LNG) \div HexDegree

\* The latitude that separates the polar cells from the rings.
PolarLat == 60

\* A longitude as the grid reports it, in -180 .. 180.
WrapLng(x) == IF x > MAX_LNG THEN x - 2 * MAX_LNG ELSE x

Abs(x) == IF x < 0 THEN 0 - x ELSE x

\* A longitude is an f64: a sign bit and a magnitude, so that negative zero
\* is a value of its own.  Magnitudes are whole degrees.
F64(x) == [neg |-> x < 0, mag |-> Abs(x)]

NegZero == [neg |-> TRUE, mag |-> 0]

\* The number an f64 stands for.
Val(f) == IF f.neg THEN 0 - f.mag ELSE f.mag

\* f64::is_sign_negative: the sign bit, set for negative zero too.
is_sign_negative(f) == f.neg

\* The vertices of a cell in whole degrees, each <<lng, lat>>.
BoundaryDegrees(c) ==
    IF c = NorthPole
        THEN [i \in 1 .. HexDegree |-> << (i - 1) * CellWidth - MAX_LNG, PolarLat >>]
    ELSE IF c = SouthPole
        THEN [i \in 1 .. HexDegree |->
                 << MAX_LNG - (i - 1) * CellWidth - (CellWidth \div 2), 0 - PolarLat >>]
    ELSE IF c \in UpperRing
        THEN LET w == (c - 1) * CellWidth - MAX_LNG
             IN  << <<WrapLng(w), 0>>,
                    <<WrapLng(w + (CellWidth \div 2)), 0>>,
                    <<WrapLng(w + CellWidth), 0>>,
                    <<WrapLng(w + CellWidth), PolarLat>>,
                    <<WrapLng(w), PolarLat>> >>
        ELSE LET w == (c - 1 - HexDegree) * CellWidth - MAX_LNG + (CellWidth \div 2)
             IN  << <<WrapLng(w), 0 - PolarLat>>,
                    <<WrapLng(w + CellWidth), 0 - PolarLat>>,
                    <<WrapLng(w + CellWidth), 0>>,
                    <<WrapLng(w + (CellWidth \div 2)), 0>>,
                    <<WrapLng(w), 0>> >>

\* CellIndex::boundary: the vertices of a cell, each <<lng, lat>> as
\* vec![v.lng(), v.lat()] orders them, the longitude an f64.
Boundary(c) ==
    [i \in 1 .. Len(BoundaryDegrees(c)) |->
        << F64(BoundaryDegrees(c)[i][1]), BoundaryDegrees(c)[i][2] >>]

\* IsSwapSign with the pair of the last and the first vertex scanned too.
IsSwapSignWraparound(vertices) ==
    \E i \in 1 .. Len(vertices) :
        LET j == IF i = 1 THEN Len(vertices) ELSE i - 1
        IN  Abs(Max2(Val(vertices[j][1]), Val(vertices[i][1]))
                - Min2(Val(vertices[j][1]), Val(vertices[i][1]))) > MAX_LNG

\* The scan of lines 124-132: some consecutive pair of the open chain lies
\* more than MAX_LNG apart in longitude.
IsSwapSign(vertices) ==
    \E i \in 2 .. Len(vertices) :
        Abs(Max2(Val(vertices[i - 1][1]), Val(vertices[i][1]))
            - Min2(Val(vertices[i - 1][1]), Val(vertices[i][1]))) > MAX_LNG

\* SwapSign moving the longitudes the wrong way, by -2 * MAX_LNG.
SwapSignSubtracts(vertices) ==
    [i \in 1 .. Len(vertices) |->
        IF is_sign_negative(vertices[i][1])
            THEN << F64(Val(vertices[i][1]) - 2 * MAX_LNG), vertices[i][2] >>
            ELSE vertices[i]]

\* Lines 133-139: every longitude whose sign bit is set is moved by
\* 2 * MAX_LNG.
SwapSign(vertices) ==
    [i \in 1 .. Len(vertices) |->
        IF is_sign_negative(vertices[i][1])
            THEN << F64(Val(vertices[i][1]) + 2 * MAX_LNG), vertices[i][2] >>
            ELSE vertices[i]]

\* ProjectBoundary closing the ring with the first vertex as it was before
\* the shift.
ProjectBoundaryClosesUnshifted(boundary) ==
    LET vertices == IF IsSwapSign(boundary) THEN SwapSign(boundary) ELSE boundary
    IN  Append(vertices, boundary[1])

\* Lines 118-141: the closed ring built from the vertices of a boundary,
\* which h3o never returns empty.
ProjectBoundary(boundary) ==
    LET vertices == IF IsSwapSign(boundary) THEN SwapSign(boundary) ELSE boundary
    IN  Append(vertices, vertices[1])

\* impl Into<Geometry> for Index
IndexIntoGeometry(c) ==
    [type |-> "Polygon", coordinates |-> << ProjectBoundary(Boundary(c)) >>]

to_feature(geom) ==
    [geometry |-> geom, bbox |-> None, id |-> None,
     properties |-> None, foreign_members |-> None]

\* ----------------------------------------------------------- the Universe

\* Universe::new: every sampled coordinate falls in some cell of the grid,
\* and the cells are inserted in order as Alive.
RECURSIVE new(_, _)
new(sampled, i) ==
    IF i = 0 THEN EmptyMap ELSE Insert(new(sampled, i - 1), sampled[i], Alive)

\* Universe::live_neighbor_count
live_neighbor_count(m, index) ==
    LET neighbors == GridDisk(index)
    IN  Cardinality({i \in 1 .. Len(neighbors) :
                        IF ContainsKey(m, neighbors[i])
                            THEN m[neighbors[i]] = Alive
                            ELSE FALSE}) % 256

\* BirthVisit with the birth test loosened to two or more live neighbors.
BirthVisitAtLeastTwo(current, next, neighbor) ==
    IF ContainsKey(current, neighbor) THEN next
    ELSE IF live_neighbor_count(current, neighbor) >= 2
        THEN Insert(next, neighbor, Alive)
        ELSE next

\* The body of the reproduction loop of tick, for one neighbor.
BirthVisit(current, next, neighbor) ==
    IF ContainsKey(current, neighbor) THEN next
    ELSE IF live_neighbor_count(current, neighbor) = 2
        THEN Insert(next, neighbor, Alive)
        ELSE next

RECURSIVE Reproduce(_, _, _, _)
Reproduce(current, next, neighbors, i) ==
    IF i > Len(neighbors) THEN next
    ELSE Reproduce(current, BirthVisit(current, next, neighbors[i]), neighbors, i + 1)

\* NextState with a birth arm for tracked Dead cells.
NextStateRevivesDead(state, num_live_neighbors) ==
    IF state = Alive /\ num_live_neighbors < 2 THEN Dead
    ELSE IF state = Alive /\ num_live_neighbors \in {2, 3} THEN Alive
    ELSE IF state = Alive /\ num_live_neighbors > 3 THEN Dead
    ELSE IF state = Dead /\ num_live_neighbors = 2 THEN Alive
    ELSE state

\* The match of lines 86-91.
NextState(state, num_live_neighbors) ==
    IF state = Alive /\ num_live_neighbors < 2 THEN Dead
    ELSE IF state = Alive /\ num_live_neighbors \in {2, 3} THEN Alive
    ELSE IF state = Alive /\ num_live_neighbors > 3 THEN Dead
    ELSE state

\* TickVisit reading the map under construction instead of the pre-tick map.
TickVisitReadsNext(current, next, index) ==
    LET state     == current[index]
        neighbors == SelectSeq(GridDisk(index), LAMBDA n : n # index)
        born      == Reproduce(next, next, neighbors, 1)
        num_live_neighbors == live_neighbor_count(next, index)
    IN  Insert(born, index, NextState(state, num_live_neighbors))

\* TickVisit removing a cell whose next state is Dead instead of storing it.
TickVisitDropsDead(current, next, index) ==
    LET state     == current[index]
        neighbors == SelectSeq(GridDisk(index), LAMBDA n : n # index)
        born      == Reproduce(current, next, neighbors, 1)
        num_live_neighbors == live_neighbor_count(current, index)
    IN  IF NextState(state, num_live_neighbors) = Dead
            THEN Remove(born, index)
            ELSE Insert(born, index, Alive)

\* The body of the loop of tick, for one tracked cell.
TickVisit(current, next, index) ==
    LET state     == current[index]
        neighbors == SelectSeq(GridDisk(index), LAMBDA n : n # index)
        born      == Reproduce(current, next, neighbors, 1)
        num_live_neighbors == live_neighbor_count(current, index)
    IN  Insert(born, index, NextState(state, num_live_neighbors))

RECURSIVE TickLoop(_, _, _, _)
TickLoop(current, next, order, i) ==
    IF i > Len(order) THEN next
    ELSE TickLoop(current, TickVisit(current, next, order[i]), order, i + 1)

\* Universe::tick, with self.cells iterated in the given order.
tick(current, order) == TickLoop(current, current, order, 1)

\* The feature of every cell of the grid: a cell's polygon depends on the
\* cell alone.
Features == [c \in CellIndex |-> to_feature(IndexIntoGeometry(c))]

\* RenderVisit skipping a Dead entry without recording it as a tombstone.
RenderVisitForgetsTombstone(m, acc, index) ==
    IF m[index] = Dead
        THEN acc
        ELSE [acc EXCEPT !.features = Append(@, Features[index])]

\* RenderVisit without the continue: a Dead entry also yields a feature.
RenderVisitNoContinue(m, acc, index) ==
    LET marked == IF m[index] = Dead
                      THEN [acc EXCEPT !.tombstones = Append(@, index)]
                      ELSE acc
    IN  [marked EXCEPT !.features = Append(@, Features[index])]

\* RenderVisit recording every entry as a tombstone, Alive ones too.
RenderVisitTombstonesAll(m, acc, index) ==
    IF m[index] = Dead
        THEN [acc EXCEPT !.tombstones = Append(@, index)]
        ELSE [acc EXCEPT !.tombstones = Append(@, index),
                         !.features = Append(@, Features[index])]

\* The body of the first loop of render, for one entry.
RenderVisit(m, acc, index) ==
    IF m[index] = Dead
        THEN [acc EXCEPT !.tombstones = Append(@, index)]
        ELSE [acc EXCEPT !.features = Append(@, Features[index])]

RECURSIVE RenderLoop(_, _, _, _)
RenderLoop(m, acc, order, i) ==
    IF i > Len(order) THEN acc
    ELSE RenderLoop(m, RenderVisit(m, acc, order[i]), order, i + 1)

RECURSIVE Prune(_, _, _)
Prune(m, tombstones, i) ==
    IF i > Len(tombstones) THEN m
    ELSE Prune(Remove(m, tombstones[i]), tombstones, i + 1)

\* render removing only the first tombstone it recorded.
renderPrunesOne(m, order) ==
    LET acc == RenderLoop(m, [features |-> << >>, tombstones |-> << >>], order, 1)
    IN  [cells   |-> Prune(m, SubSeq(acc.tombstones, 1, Min2(1, Len(acc.tombstones))), 1),
         geojson |-> [type |-> "FeatureCollection", features |-> acc.features,
                      bbox |-> None, foreign_members |-> None]]

\* Universe::render, with self.cells iterated in the given order: the map
\* it leaves and the feature collection it returns.
render(m, order) ==
    LET acc == RenderLoop(m, [features |-> << >>, tombstones |-> << >>], order, 1)
    IN  [cells   |-> Prune(m, acc.tombstones, 1),
         geojson |-> [type |-> "FeatureCollection", features |-> acc.features,
                      bbox |-> None, foreign_members |-> None]]

\* ------------------------------------------------------------ transitions

Init ==
    \E num_init \in 0 .. MaxPopulation :
        \E sampled \in [1 .. num_init -> CellIndex] :
            /\ cells = new(sampled, num_init)
            /\ op = "new"
            /\ prev = EmptyMap
            /\ geojson = None
            /\ calls = 0
            /\ input = None
            /\ output = None

Tick ==
    \E order \in IterOrders(DOMAIN cells) :
        /\ calls < MaxCalls
        /\ calls' = calls + 1
        /\ cells' = tick(cells, order)
        /\ op' = "tick"
        /\ prev' = cells
        /\ geojson' = None
        /\ UNCHANGED <<input, output>>

Render ==
    \E order \in IterOrders(DOMAIN cells) :
        /\ calls < MaxCalls
        /\ calls' = calls + 1
        /\ \E result \in {render(cells, order)} :
              /\ cells' = result.cells
              /\ geojson' = result.geojson
        /\ op' = "render"
        /\ prev' = cells
        /\ UNCHANGED <<input, output>>

Next == Tick \/ Render

Spec == Init /\ [][Next]_vars

\* ------------------------------------------------------------ construction

MIN_LAT == 0 - 90
MAX_LAT == 90
MIN_LNG == 0 - 180

\* The largest value Resolution::try_from accepts.
MAX_RESOLUTION == 15

\* The resolution arguments explored: the ends of the valid range and the
\* first invalid value.
Resolutions == {0, MAX_RESOLUTION, MAX_RESOLUTION + 1}

\* The values a draw can take: the ends of both ranges and points between.
DrawValues == {MIN_LNG, MIN_LAT, 0, MAX_LAT - 1, MAX_LAT, MAX_LNG - 1, MAX_LNG}

\* Uniform::new(low, high).sample: a value of the half-open range.
Uniform(low, high) == {x \in DrawValues : low <= x /\ x < high}

\* h3o's LatLng::new(lat, lng): the latitude is its first parameter.
LatLngNew(lat, lng) == [lat |-> lat, lng |-> lng]

\* UniformSampler::sample_coord, given what dist_lng and dist_lat drew.
sample_coord(lng_draw, lat_draw) == LatLngNew(lng_draw, lat_draw)

\* The draws one call of sample_coord can make.
Draws == Uniform(MIN_LNG, MAX_LNG) \X Uniform(MIN_LAT, MAX_LAT)

\* The point of the sphere a coordinate denotes, with the latitude in
\* -90..90 and the longitude in -180..179: a latitude beyond a pole is the
\* point on the far side of that pole.
OnSphere(coord) ==
    LET over == coord.lat > MAX_LAT \/ coord.lat < MIN_LAT
        lat  == IF coord.lat > MAX_LAT THEN 2 * MAX_LAT - coord.lat
                ELSE IF coord.lat < MIN_LAT THEN 2 * MIN_LAT - coord.lat
                ELSE coord.lat
        lng  == IF over THEN coord.lng + MAX_LNG ELSE coord.lng
    IN  [lat |-> lat, lng |-> ((lng + 3 * MAX_LNG) % (2 * MAX_LNG)) - MAX_LNG]

\* LatLng::to_cell: the cell of the grid that holds a coordinate.
to_cell(coord) ==
    LET p == OnSphere(coord)
    IN  IF p.lat >= PolarLat THEN NorthPole
        ELSE IF p.lat < 0 - PolarLat THEN SouthPole
        ELSE IF p.lat >= 0
            THEN Upper((p.lng + MAX_LNG) \div CellWidth)
            ELSE Lower(((p.lng + 3 * MAX_LNG - (CellWidth \div 2)) % (2 * MAX_LNG))
                           \div CellWidth)

\* The range 0..num_init of line 31 with its upper end included.
SampleCountInclusive(num_init) == num_init + 1

\* The number of coordinates line 31 samples: one for each of 0..num_init.
SampleCount(num_init) == num_init

InitNew ==
    /\ op = "start"
    /\ cells = EmptyMap
    /\ prev = EmptyMap
    /\ geojson = None
    /\ calls = 0
    /\ input = None
    /\ output = None

\* Universe::new(num_init, resolution).  A resolution that try_from rejects
\* reaches unwrap_unchecked on an Err, which is undefined behaviour: the
\* build may go on with some resolution and return a Universe, or trap.
New ==
    \E num_init \in 0 .. MaxPopulation, resolution \in Resolutions :
        \E draws \in [1 .. SampleCount(num_init) -> Draws] :
            LET coords == [i \in DOMAIN draws |-> sample_coord(draws[i][1], draws[i][2])]
                mapped == [i \in DOMAIN draws |-> to_cell(coords[i])]
            IN  /\ op = "start"
                /\ op' = "new"
                /\ input' = [num_init |-> num_init, resolution |-> resolution,
                             coords |-> coords]
                /\ \/ /\ output' = "Universe"
                      /\ cells' = new(mapped, Len(mapped))
                   \/ /\ resolution > MAX_RESOLUTION
                      /\ output' = "Trap"
                      /\ cells' = EmptyMap
                /\ UNCHANGED <<prev, geojson, calls>>

SpecNew == InitNew /\ [][New]_vars

\* -------------------------------------- the Boundary Projector on its own

\* The longitudes of the explored boundaries: both ends of the range, both
\* sides of the seam and of the prime meridian, and both zeros.
LngValues == {F64(x) : x \in {0 - MAX_LNG, 1 - MAX_LNG, 0 - 1, 0, 1, MAX_LNG - 1, MAX_LNG}}
                 \cup {NegZero}

LatValues == {0, PolarLat}

\* The boundaries explored: every chain of 1..MaxVertices vertices.
Boundaries ==
    UNION {[1 .. n -> LngValues \X LatValues] : n \in 1 .. MaxVertices}

InitProjector ==
    /\ input \in Boundaries
    /\ output = None
    /\ op = "boundary"
    /\ cells = EmptyMap
    /\ prev = EmptyMap
    /\ geojson = None
    /\ calls = 0

\* Index(cell).into() on a cell with the boundary input.
Project ==
    /\ op = "boundary"
    /\ op' = "into"
    /\ output' = ProjectBoundary(input)
    /\ UNCHANGED <<cells, prev, geojson, calls, input>>

SpecProjector == InitProjector /\ [][Project]_vars

TypeOK ==
    /\ DOMAIN cells \subseteq CellIndex
    /\ \A c \in DOMAIN cells : cells[c] \in CellState
    /\ op \in {"new", "tick", "render"}

\* ------------------------------------------------------------ the claims

\* The grid-neighbors of c: the cells of the disk of radius 1 other than c.
DiskNeighbors(c) == Range(GridDisk(c)) \ {c}

\* The number of grid-neighbors of c that are in the map m as Alive.
AliveNeighbors(m, c) == Cardinality(DiskNeighbors(c) \cap AliveSet(m))

\* c is a grid-neighbor of some cell the map m tracks.
NextToTracked(m, c) == \E t \in DOMAIN m : c \in DiskNeighbors(t)

\* C1: live_neighbor_count(c) is the number of cells of the disk of radius 1
\* around c, other than c itself, that are in the map as Alive; an Alive c
\* is not counted among its own neighbors.
C1_CountExcludesCenter ==
    \A c \in CellIndex : live_neighbor_count(cells, c) = AliveNeighbors(cells, c)

\* C2 (stasis): a tracked cell that is Alive before a tick and has exactly 2
\* or 3 Alive grid-neighbors in the pre-tick map is Alive after the tick.
C2_Stasis ==
    op = "tick" =>
        \A c \in AliveSet(prev) :
            AliveNeighbors(prev, c) \in {2, 3} => c \in AliveSet(cells)

\* C3 (death): a tracked cell that is Alive before a tick and has 0, 1 or at
\* least 4 Alive grid-neighbors in the pre-tick map is Dead after the tick.
C3_Death ==
    op = "tick" =>
        \A c \in AliveSet(prev) :
            AliveNeighbors(prev, c) \notin {2, 3} => c \in DeadSet(cells)

\* C4 (birth of untracked cells): a cell absent from the pre-tick map is in
\* the post-tick map if and only if it is a grid-neighbor of a pre-tick
\* tracked cell and has exactly 2 Alive grid-neighbors in the pre-tick map,
\* and then it is Alive.
C4_BirthUntracked ==
    op = "tick" =>
        \A M \in CellIndex \ DOMAIN prev :
            /\ M \in DOMAIN cells
                 <=> (NextToTracked(prev, M) /\ AliveNeighbors(prev, M) = 2)
            /\ M \in DOMAIN cells => cells[M] = Alive

\* A tick added an untracked cell with two Alive neighbors, and left out an
\* untracked neighbor of a tracked cell whose count was not two.
C4_Witness ==
    /\ op = "tick"
    /\ \E M \in CellIndex \ DOMAIN prev :
          AliveNeighbors(prev, M) = 2 /\ M \in AliveSet(cells)
    /\ \E M \in CellIndex \ DOMAIN prev :
          /\ NextToTracked(prev, M)
          /\ AliveNeighbors(prev, M) # 2
          /\ M \notin DOMAIN cells

\* C5 (birth of tracked Dead cells): a cell that is in the pre-tick map as
\* Dead, is next to a tracked cell and has exactly 2 Alive grid-neighbors in
\* the pre-tick map is Alive after the tick.
C5_BirthTrackedDead ==
    op = "tick" =>
        \A c \in DeadSet(prev) :
            (NextToTracked(prev, c) /\ AliveNeighbors(prev, c) = 2)
                => c \in AliveSet(cells)

\* C6: Dead entries do not affect the simulation: the set of Alive cells
\* after a tick equals the set of Alive cells after a render followed by a
\* tick, whatever the iteration orders.
C6_RenderDoesNotChangeTick ==
    \A o1 \in IterOrders(DOMAIN cells) :
        LET pruned == render(cells, o1).cells
        IN  \A o2 \in IterOrders(DOMAIN pruned) :
                AliveSet(tick(cells, o1)) = AliveSet(tick(pruned, o2))

\* The cells a tick adds to the map m, stated from m alone.
Births(m) ==
    {n \in CellIndex \ DOMAIN m :
        NextToTracked(m, n) /\ live_neighbor_count(m, n) = 2}

\* The map after a tick of m, stated from m alone.
NextGeneration(m) ==
    [c \in (DOMAIN m) \cup Births(m) |->
        IF c \in DOMAIN m THEN NextState(m[c], live_neighbor_count(m, c))
                          ELSE Alive]

\* C7 (snapshot isolation): every count and membership test of a tick reads
\* the pre-tick map, so the post-tick map is a function of the pre-tick map
\* alone, the same for every order in which the map is iterated.
C7_SnapshotIsolation == op = "tick" => cells = NextGeneration(prev)

\* A tick ran on a map that it changed in all three ways: a cell was born, a
\* cell died, and a cell next to both survived.
C7_Witness ==
    /\ op = "tick"
    /\ Cardinality(DOMAIN prev) >= 3
    /\ \E b \in AliveSet(cells) \ DOMAIN prev :
          \E d \in AliveSet(prev) \cap DeadSet(cells) :
              \E a \in AliveSet(prev) \cap AliveSet(cells) :
                  a \in DiskNeighbors(b) /\ a \in DiskNeighbors(d)

\* C8 (post-render purity): in the state right after a render call the map
\* holds no Dead entry.
C8_PostRenderPurity == op = "render" => DeadSet(cells) = {}

\* A render ran on a map that held Dead and Alive entries.
C8_Witness ==
    op = "render" /\ DeadSet(prev) # {} /\ AliveSet(prev) # {}

\* The features of fs that are the polygon of cell c.
FeaturesOf(fs, c) ==
    {i \in DOMAIN fs : fs[i] = Features[c]}

\* C9 (render completeness): the feature list render returns holds exactly
\* one polygon feature for each cell Alive at the call and none for a Dead or
\* absent cell, so it has as many features as the map had Alive entries.
C9_RenderCompleteness ==
    op = "render" =>
        /\ Len(geojson.features) = Cardinality(AliveSet(prev))
        /\ \A i \in DOMAIN geojson.features :
              geojson.features[i].geometry.type = "Polygon"
        /\ \A c \in CellIndex :
              Cardinality(FeaturesOf(geojson.features, c))
                  = IF c \in AliveSet(prev) THEN 1 ELSE 0

\* A render returned features for a map with several Alive entries and a
\* Dead one.
C9_Witness ==
    /\ op = "render"
    /\ Cardinality(AliveSet(prev)) >= 2
    /\ DeadSet(prev) # {}
    /\ Len(geojson.features) >= 2

C17_RenderOnlyPrunes ==
    op = "render" =>
        /\ DOMAIN cells = AliveSet(prev)
        /\ \A c \in DOMAIN cells : cells[c] = Alive /\ prev[c] = Alive

\* A render pruned a map that held both Alive and Dead entries and kept
\* the Alive ones.
C17_Witness ==
    /\ op = "render"
    /\ DeadSet(prev) # {}
    /\ AliveSet(prev) # {}
    /\ DOMAIN cells = AliveSet(prev)
    /\ DOMAIN cells # DOMAIN prev

\* C19: extinction is absorbing: a tick or render of a map with no Alive
\* entry leaves no Alive entry; the tick leaves the map unchanged and the
\* render returns an empty feature list.
C19_ExtinctionAbsorbing ==
    (op \in {"tick", "render"} /\ AliveSet(prev) = {}) =>
        /\ AliveSet(cells) = {}
        /\ op = "tick" => cells = prev
        /\ op = "render" => geojson.features = << >>

\* A tick ran on a map that held only Dead entries, next to untracked cells.
C19_Witness ==
    /\ op = "tick"
    /\ AliveSet(prev) = {}
    /\ DeadSet(prev) # {}
    /\ cells = prev

\* C20: render is idempotent: a render called right after a render, in
\* whatever order it iterates, leaves the map as the first one left it and
\* returns the same set of features.
C20_RenderIdempotent ==
    op = "render" =>
        \A order \in IterOrders(DOMAIN cells) :
            \A again \in {render(cells, order)} :
                /\ again.cells = cells
                /\ Range(again.geojson.features) = Range(geojson.features)

\* The second of two renders in a row on a Universe of one Alive cell: a
\* map of one Alive entry after two calls can only come from new, render,
\* render, since a tick of a one-cell map leaves that cell Dead.
C20_Witness ==
    /\ op = "render"
    /\ calls = 2
    /\ prev = cells
    /\ Cardinality(AliveSet(cells)) = 1
    /\ Len(geojson.features) = 1

\* Two longitudes lie more than 180 degrees apart.
CrossesSeam(a, b) == Abs(Val(a) - Val(b)) > MAX_LNG

\* Some consecutive pair (i-1, i), 1 <= i < n, of the open chain b crosses
\* the seam.
ChainCrossesSeam(b) ==
    \E i \in 2 .. Len(b) : CrossesSeam(b[i - 1][1], b[i][1])

\* No consecutive pair of the ring r, the closing pair included, crosses.
RingContiguous(r) ==
    \A i \in 2 .. Len(r) : ~CrossesSeam(r[i - 1][1], r[i][1])

\* C14 (ring closure): the ring built from a boundary of n >= 1 vertices has
\* n + 1 points and its last point equals its first point, which is the
\* first vertex after any shift.
C14_RingClosed ==
    op = "into" =>
        /\ Len(output) = Len(input) + 1
        /\ output[Len(output)] = output[1]
        /\ output[1][1] =
              IF ChainCrossesSeam(input) /\ is_sign_negative(input[1][1])
                  THEN F64(Val(input[1][1]) + 2 * MAX_LNG)
                  ELSE input[1][1]

\* A ring was built from a boundary whose first vertex was shifted.
C14_Witness ==
    /\ op = "into"
    /\ Len(input) >= 2
    /\ output[1] # input[1]
    /\ output[Len(input) + 1] = output[1]

\* C15 (antimeridian correction), as claimed: the ring built from a boundary
\* with a consecutive pair on opposite sides of the seam has no consecutive
\* pair, the closing pair included, more than 180 degrees apart.
C15_NoSeamCrossing ==
    (op = "into" /\ ChainCrossesSeam(input)) => RingContiguous(output)

\* The boundary spans at most 180 degrees across the seam: every longitude
\* with the sign bit set lies at least 180 below every other one.
Compact(b) ==
    \A i, j \in 1 .. Len(b) :
        (is_sign_negative(b[i][1]) /\ ~is_sign_negative(b[j][1]))
            => Val(b[j][1]) - Val(b[i][1]) >= MAX_LNG

\* C15, amended: the same for a boundary with longitudes in -180..180 that
\* spans at most 180 degrees across the seam.
C15_NoSeamCrossingCompact ==
    (op = "into" /\ ChainCrossesSeam(input) /\ Compact(input))
        => RingContiguous(output)

\* A ring was built from a compact boundary of three vertices that crosses
\* the seam, and its negative longitudes were shifted.
C15_Witness ==
    /\ op = "into"
    /\ Len(input) >= 3
    /\ ChainCrossesSeam(input)
    /\ Compact(input)
    /\ \E i \in 1 .. Len(input) : Val(output[i][1]) > MAX_LNG
    /\ \E i \in 1 .. Len(input) : output[i] = input[i]

\* C18, as claimed: longitudes are shifted if and only if the open chain
\* crosses the seam; then every negative longitude has 360 added and every
\* non-negative one is unchanged; latitudes and order never change.
C18_ShiftRule ==
    op = "into" =>
        \A i \in 1 .. Len(input) :
            /\ output[i][2] = input[i][2]
            /\ output[i][1] =
                  IF ChainCrossesSeam(input) /\ Val(input[i][1]) < 0
                      THEN F64(Val(input[i][1]) + 2 * MAX_LNG)
                      ELSE input[i][1]

\* C18, amended: the longitudes that have 360 added are those with the sign
\* bit set, the negative ones and negative zero.
C18_ShiftRuleSignBit ==
    op = "into" =>
        \A i \in 1 .. Len(input) :
            /\ output[i][2] = input[i][2]
            /\ output[i][1] =
                  IF ChainCrossesSeam(input) /\ is_sign_negative(input[i][1])
                      THEN F64(Val(input[i][1]) + 2 * MAX_LNG)
                      ELSE input[i][1]

\* A ring was built from a boundary that crosses the seam and holds a
\* negative longitude, a negative zero and a positive longitude.
C18_Witness ==
    /\ op = "into"
    /\ ChainCrossesSeam(input)
    /\ \E i \in 1 .. Len(input) : Val(input[i][1]) < 0 /\ output[i] # input[i]
    /\ \E i \in 1 .. Len(input) :
          input[i][1] = NegZero /\ Val(output[i][1]) = 2 * MAX_LNG
    /\ \E i \in 1 .. Len(input) : Val(input[i][1]) > 0 /\ output[i] = input[i]

\* The cells the sampled coordinates of a construction fall in.
SampledCells == {to_cell(input.coords[i]) : i \in DOMAIN input.coords}

\* C11 (construction): the map of Universe::new(N, R) with a valid R holds
\* at most N entries, exactly N when no two sampled coordinates fall in the
\* same cell, and every entry is Alive.
C11_Construction ==
    (op = "new" /\ output = "Universe" /\ input.resolution <= MAX_RESOLUTION) =>
        /\ Cardinality(DOMAIN cells) <= input.num_init
        /\ Cardinality(SampledCells) = Len(input.coords)
              => Cardinality(DOMAIN cells) = input.num_init
        /\ DOMAIN cells = SampledCells
        /\ \A c \in DOMAIN cells : cells[c] = Alive

\* A Universe was built from two coordinates that fell in the same cell.
C11_Witness ==
    /\ op = "new"
    /\ output = "Universe"
    /\ input.resolution <= MAX_RESOLUTION
    /\ input.num_init = 2
    /\ input.coords[1] # input.coords[2]
    /\ Cardinality(DOMAIN cells) = 1

\* C12: Universe::new with a resolution the grid rejects ends with an
\* InvalidResolution error and produces no Universe.
C12_InvalidResolutionFails ==
    (op = "new" /\ input.resolution > MAX_RESOLUTION) =>
        output = "InvalidResolution"

\* C16: every coordinate the sampler draws, and so every coordinate handed
\* to the grid during construction, has its longitude in -180..180 and its
\* latitude in -90..90.
C16_CoordinatesInRange ==
    op = "new" =>
        \A i \in DOMAIN input.coords :
            /\ MIN_LNG <= input.coords[i].lng /\ input.coords[i].lng <= MAX_LNG
            /\ MIN_LAT <= input.coords[i].lat /\ input.coords[i].lat <= MAX_LAT

====
